---- MODULE Spec2Model ----
(***************************************************************************)
(* Chafftafarian chaff generator: the file-relationship and encoding       *)
(* pipeline (src/file_linking.py), the writer that puts its result on disk *)
(* (src/main.py) and the companion decoder (src/tests/decode_chaff.py).     *)
(*                                                                         *)
(* Five specifications share the module:                                  *)
(*   Spec     - FileLinkingManager.create_file_network followed by the     *)
(*              write loop of generate_chaff_files, one action per loop    *)
(*              iteration / relation pass / rewrite pass;                  *)
(*   EncSpec  - FileEncoder.encode_file and the decoders on concrete byte  *)
(*              strings;                                                   *)
(*   HintSpec - create_file_network from the end of its encoding loop, on  *)
(*              lists with up to four text files;                          *)
(*   MainSpec - main with the planner, generate_chaff_files as one step;   *)
(*   PlanSpec - validate_settings and generate_file_plan with the sizes it *)
(*              plans, one action per loop iteration.                      *)
(* In Spec the bytes of a file are kept as a sequence of chunks (the       *)
(* template's output, the encoder's output, the text sections appended by  *)
(* the rewriting passes); in EncSpec they are sequences of 0..255.         *)
(***************************************************************************)
EXTENDS Integers, Sequences, FiniteSets, TLC

VARIABLES
    plans,            \* create_file_network's argument: the plan list
    encoded_files,    \* FileLinkingManager.encoded_files
    passwords,        \* FileLinkingManager.passwords: filename -> password
    file_references,  \* FileLinkingManager.file_references
    pc,               \* position inside create_file_network / generate_chaff_files
    error,            \* the exception that ended the run, "none" while running
    disk,             \* the files present in the target directory
    wi,               \* index of the next encoded file generate_chaff_files writes
    e_content, e_method, e_password,   \* encode_file's arguments
    e_out,            \* encode_file's result: [encoded, metadata]
    e_dec,            \* result of the matching decoder applied to e_out
    dry_run,          \* main: args.dry_run
    warnings,         \* main: what settings.validate_settings() returned
    response,         \* main: what input() returned, "" before it is called
    result,           \* main: its return value, -1 while it runs
    image_refs,       \* create_file_network: for each encoded file, the image_refs
                      \* of the template that generated it (set_image_references)
    settings,         \* ChaffGenerationPlanner.settings, with the free disk space
    file_count,       \* generate_file_plan: file_count
    avg_size,         \* generate_file_plan: avg_size
    sizes             \* generate_file_plan: size_bytes of the plans appended so far

vars == <<plans, encoded_files, passwords, file_references, pc, error, disk, wi,
          e_content, e_method, e_password, e_out, e_dec,
          dry_run, warnings, response, result, image_refs,
          settings, file_count, avg_size, sizes>>
pipeVars == <<plans, encoded_files, passwords, file_references, pc, error, disk, wi>>
encVars == <<e_content, e_method, e_password, e_out, e_dec>>
mainVars == <<dry_run, warnings, response, result>>
planVars == <<settings, file_count, avg_size, sizes>>

(***************************************************************************)
(* Generic helpers                                                         *)
(***************************************************************************)
Min(a, b) == IF a < b THEN a ELSE b

Max(a, b) == IF a > b THEN a ELSE b

SeqToSet(s) == {s[i] : i \in DOMAIN s}

\* random.randint(a, b): the values it can return; empty when a > b, where
\* the call raises ValueError
RandInt(a, b) == a..b

\* the index vectors random.sample can draw: k distinct positions of 1..n,
\* in selection order
InjSeqs(n, k) == {f \in [1..k -> 1..n] : \A i, j \in 1..k : i # j => f[i] # f[j]}

\* random.sample(pool, k): the lists it can return
Sample(pool, k) == {[i \in 1..k |-> pool[f[i]]] : f \in InjSeqs(Len(pool), k)}

\* all concatenations that take one sequence from each set of ss, in order
RECURSIVE ConcatChoices(_)
ConcatChoices(ss) ==
    IF ss = <<>> THEN {<<>>}
    ELSE {a \o b : a \in Head(ss), b \in ConcatChoices(Tail(ss))}

\* s[:n]
Prefix(s, n) == SubSeq(s, 1, Min(n, Len(s)))

(***************************************************************************)
(* Data model                                                              *)
(***************************************************************************)
\* EncodingMethod, by its .value
EncodingMethod == <<"none", "base64", "base64_multiline", "base64_urlsafe",
                    "encrypted_fernet", "zip_password", "zip_encrypted">>
NONE == "none"
Base64Methods == {"base64", "base64_multiline", "base64_urlsafe"}
PasswordMethods == {"encrypted_fernet", "zip_password", "zip_encrypted"}

FileTypes == {"eml", "pdf", "docx", "txt", "xlsx", "csv", "jpg", "png"}

\* a filename as _generate_filename builds it: base name, suffix, '.', file type
FN(b, s, e) == [base |-> b, suffix |-> s, ext |-> e]
NoFile == FN("", "", "")

\* FileGenerationPlan (size_bytes and language only steer the template)
Plan(t, b, s) == [file_type |-> t, filename |-> FN(b, s, t)]

\* metadata.get('password') when encode_file set none
NoPassword == <<>>

\* what a context sentence says: the file it names, the password and the
\* project it quotes (the fixed words of the phrasing are left out)
Ctx(f, p, proj) == [about |-> f, password |-> p, project |-> proj]

\* FileReference
Ref(s, t, ty, c) == [source_file |-> s, target_file |-> t, reference_type |-> ty, context |-> c]

\* one stretch of a file's bytes
\*   raw      the template's output for plan `of`
\*   enc      encode_file's output for that raw content under method m
\*   lossy    that stretch after bytes.decode('utf-8', errors='ignore') dropped bytes
\*   reflist / csvrefs / hint / email   text written by the rewriting passes
\* utf8 tells whether the stretch is valid UTF-8; headers are the RFC-822
\* headers the stretch starts with, NoHeaders when it has none; protects is
\* the registry key a hint was formatted for, NoFile in every other stretch
\* the header block of an email: id stands for the values Faker drew for
\* sender, recipient, subject, date and message-id, tz for the zone the Date
\* line ends with, x_attachments for the X-Attachments count (-1: no such line)
Headers(id, tz, x_attachments) == [id |-> id, tz |-> tz, x_attachments |-> x_attachments]
NoHeaders == Headers(0, "", -1)

Chunk(k, of, m, u, lines) ==
    [k |-> k, of |-> of, m |-> m, utf8 |-> u, lines |-> lines, headers |-> NoHeaders,
     protects |-> NoFile]

(***************************************************************************)
(* Bounds and inputs                                                       *)
(***************************************************************************)
\* number of distinct passwords PasswordGenerator can return in a run
NumPasswords == 2
\* number of the eight project names in use
NumProjects == 1
\* most files the 70%-coin of _create_project_references assigns in a run
MaxProjectFiles == 2
\* number of distinct header value sets Faker can draw for an email
NumFake == 2

\* PasswordGenerator.generate_password(strength): the passwords it can return
GeneratePassword(strength) == {<<strength, n>> : n \in 1..NumPasswords}

\* the strength encode_file asks for when no password is supplied
PasswordStrength(method) == IF method = "zip_encrypted" THEN "strong" ELSE "medium"

project_names == <<"Alpha", "Beta", "Gamma", "Delta", "Phoenix", "Titan", "Nova", "Apex">>
ProjectNames == {project_names[n] : n \in 1..Min(NumProjects, Len(project_names))}
NoProject == ""

\* the filenames of the plan lists explored
Names == {<<"report", "">>, <<"report", "_v2">>, <<"data", "_backup">>}
Universe == {Plan(t, n[1], n[2]) : t \in FileTypes, n \in Names}

\* plan lists: every list of one or two plans, and the lists below, which
\* have enough documents and spreadsheets for every relation pass to emit edges
\* (_generate_filename can give two plans of a run the same filename)
LongLists ==
    { <<Plan("csv", "report", ""), Plan("pdf", "report", ""), Plan("jpg", "data", "_backup")>>,
      <<Plan("eml", "report", ""), Plan("txt", "report", "_v2"), Plan("png", "data", "_backup")>>,
      <<Plan("pdf", "report", ""), Plan("pdf", "report", ""), Plan("pdf", "data", "_backup"),
        Plan("xlsx", "report", "")>>,
      <<Plan("xlsx", "report", ""), Plan("xlsx", "data", "_backup"), Plan("pdf", "report", ""),
        Plan("jpg", "report", "")>>,
      <<Plan("txt", "report", ""), Plan("txt", "report", ""), Plan("eml", "data", "_backup")>> }
PlanLists == {<<p>> : p \in Universe} \cup {<<p, q>> : p, q \in Universe} \cup LongLists

(***************************************************************************)
(* create_file_network: grouping and encoding                              *)
(***************************************************************************)
IsEmail(p) == p.file_type = "eml"
IsDocument(p) == p.file_type \in {"pdf", "docx", "txt"}
IsSpreadsheet(p) == p.file_type \in {"xlsx", "csv"}
IsImage(p) == p.file_type \in {"jpg", "png"}

emails == SelectSeq(plans, IsEmail)
documents == SelectSeq(plans, IsDocument)
spreadsheets == SelectSeq(plans, IsSpreadsheet)
images == SelectSeq(plans, IsImage)

PlanNames == {plans[i].filename : i \in DOMAIN plans}

\* the weights of random.choices, in percent, in the order of EncodingMethod
Weights(file_type) ==
    IF file_type = "docx" THEN <<30, 20, 10, 10, 20, 5, 5>>
    ELSE IF file_type \in {"xlsx", "csv"} THEN <<20, 20, 10, 10, 10, 20, 10>>
    ELSE IF file_type = "txt" THEN <<30, 30, 20, 10, 5, 3, 2>>
    ELSE <<50, 20, 10, 10, 10, 0, 0>>

\* _choose_encoding_method: the methods it can return
ChooseEncodingMethod(file_type) ==
    IF file_type = "pdf" THEN {NONE}
    ELSE IF file_type \in {"jpg", "png"} THEN {NONE}
    ELSE IF file_type = "eml" THEN {NONE}
    ELSE {EncodingMethod[n] : n \in {k \in 1..7 : Weights(file_type)[k] > 0}}

\* whether the bytes a template returns can fail to be valid UTF-8 where a
\* rewriting pass decodes them: TXTTemplate cuts the repeated text at
\* target_size, which can split a multi-byte character; CSVTemplate does not cut
RawUtf8(file_type) ==
    IF file_type = "txt" THEN {TRUE, FALSE}
    ELSE IF file_type \in {"csv", "eml"} THEN {TRUE}
    ELSE {FALSE}

\* whether encode_file's output is valid UTF-8: base64 text is; the salt, the
\* ciphertext and the archive are random bytes (only txt and csv are ever decoded)
EncUtf8(file_type, method) ==
    IF method \in Base64Methods THEN {TRUE}
    ELSE IF file_type \in {"txt", "csv"} THEN {TRUE, FALSE}
    ELSE {FALSE}

\* EMLTemplate._generate_single_email: the header blocks it can write, the
\* Date line ending in the literal +0000; the other templates write none
GeneratedHeaders(file_type) ==
    IF file_type = "eml" THEN {Headers(n, "+0000", -1) : n \in 1..NumFake}
    ELSE {NoHeaders}

\* encode_file as create_file_network calls it (no password supplied), on the
\* content of plan i: the results it can return
EncodeResults(i, file_type, method) ==
    IF method = NONE
    THEN {[content |-> <<[Chunk("raw", i, NONE, u, <<>>) EXCEPT !.headers = h]>>,
           password |-> NoPassword, salt |-> FALSE]
             : u \in RawUtf8(file_type), h \in GeneratedHeaders(file_type)}
    ELSE IF method \in Base64Methods
    THEN {[content |-> <<Chunk("enc", i, method, u, <<>>)>>, password |-> NoPassword, salt |-> FALSE]
             : u \in EncUtf8(file_type, method)}
    ELSE {[content |-> <<Chunk("enc", i, method, u, <<>>)>>, password |-> pw,
           salt |-> (method = "encrypted_fernet")]
             : u \in EncUtf8(file_type, method), pw \in GeneratePassword(PasswordStrength(method))}

\* the methods whose primitive (cryptography, pyzipper) can raise
CanFail(method) == method \in PasswordMethods

EncodedFile(plan, res, method) ==
    [original_plan |-> plan, encoded_content |-> res.content, encoding_method |-> method,
     password |-> res.password, salt |-> res.salt]

\* the pipeline of create_file_network, then the write loop of generate_chaff_files
\* the pipeline with the document rewriting run before the last two relation passes
Phases_RewriteEarly ==
    <<"encode", "attach", "embed", "docref", "sheetref", "pwref", "backup", "data",
      "upd_email", "upd_doc", "project", "version", "upd_sheet", "hints", "returned">>

Phases ==
    <<"encode", "attach", "embed", "docref", "sheetref", "pwref", "backup", "data",
      "project", "version", "upd_email", "upd_doc", "upd_sheet", "hints", "returned">>
PhaseIndex(p) == CHOOSE n \in 1..Len(Phases) : Phases[n] = p
After(p) == Phases[PhaseIndex(p) + 1]

\* an exception of encode_file caught in the loop: the plan is recorded
\* unencoded and the loop goes on
EncodeFailed_Fallback ==
    /\ encoded_files' = Append(encoded_files,
           EncodedFile(plans[Len(encoded_files) + 1],
                       [content |-> <<Chunk("raw", Len(encoded_files) + 1, NONE, FALSE, <<>>)>>,
                        password |-> NoPassword, salt |-> FALSE], NONE))
    /\ pc' = IF Len(encoded_files) + 1 = Len(plans) THEN After("encode") ELSE "encode"
    /\ error' = "encode"
    /\ UNCHANGED passwords

\* the handling of an exception of encode_file: none, it leaves create_file_network
EncodeFailed ==
    /\ pc' = "raised"
    /\ error' = "encode"
    /\ UNCHANGED <<encoded_files, passwords>>

\* the lists create_file_network can hand to set_image_references of the
\* template of a plan: 1 to 3 sampled images for a pdf or docx plan when there
\* are images, else the template's own empty list
ImageReferences(file_type) ==
    IF file_type \in {"pdf", "docx"} /\ images # <<>>
    THEN UNION { { [j \in 1..num_images |-> embedded_images[j].filename]
                   : embedded_images \in Sample(images, num_images) }
                 : num_images \in RandInt(1, Min(3, Len(images))) }
    ELSE {<<>>}

\* one iteration of `for plan in plans`
EncodeStep ==
    /\ pc = "encode"
    /\ \E image_filenames \in ImageReferences(plans[Len(encoded_files) + 1].file_type) :
          image_refs' = Append(image_refs, image_filenames)
    /\ LET i == Len(encoded_files) + 1
           plan == plans[i]
       IN \E method \in ChooseEncodingMethod(plan.file_type) :
            \/ \E res \in EncodeResults(i, plan.file_type, method) :
                 /\ encoded_files' = Append(encoded_files, EncodedFile(plan, res, method))
                 /\ passwords' = IF res.password # NoPassword
                                 THEN [n \in DOMAIN passwords \cup {plan.filename} |->
                                          IF n = plan.filename THEN res.password ELSE passwords[n]]
                                 ELSE passwords
                 /\ pc' = IF i = Len(plans) THEN After("encode") ELSE "encode"
                 /\ error' = error
            \/ /\ CanFail(method)
               /\ EncodeFailed
    /\ UNCHANGED <<plans, file_references, disk, wi, encVars, mainVars, planVars>>

(***************************************************************************)
(* create_file_network: the nine relation passes.  Each operator gives the *)
(* lists of edges one run of the pass can append, over all random draws.   *)
(***************************************************************************)
\* the edges one email gets: 1..min(6, n) attachments and, per attachment,
\* the reverse edge when random.random() < 0.3
AttachFor(email, other_files) ==
    IF Len(other_files) > 0
    THEN UNION { UNION { ConcatChoices([j \in 1..n |->
                    LET fwd == Ref(email.filename, s[j].filename, "attachment",
                                   Ctx(s[j].filename, NoPassword, NoProject))
                        rev == Ref(s[j].filename, email.filename, "email_source",
                                   Ctx(email.filename, NoPassword, NoProject))
                    IN {<<fwd>>, <<fwd, rev>>}])
                 : s \in Sample(other_files, n) }
               : n \in RandInt(1, Min(6, Len(other_files))) }
    ELSE {<<>>}

\* _create_email_attachments
EmailAttachments(ems, other_files) ==
    ConcatChoices([e \in 1..Len(ems) |-> AttachFor(ems[e], other_files)])

\* the edges of one k-sample of targets, all of one type
EdgesTo(source, targets, ty) ==
    [j \in 1..Len(targets) |->
        Ref(source.filename, targets[j].filename, ty, Ctx(targets[j].filename, NoPassword, NoProject))]

\* _create_document_image_embeddings
DocumentImageEmbeddings(docs, imgs) ==
    ConcatChoices([d \in 1..Len(docs) |->
        {<<>>} \cup
        (IF imgs # <<>>
         THEN UNION { {EdgesTo(docs[d], s, "embedded_image") : s \in Sample(imgs, n)}
                      : n \in RandInt(1, Min(3, Len(imgs))) }
         ELSE {})])

\* other_docs of _create_document_references
\* other_docs without the filter on the filename
OtherDocs_Unfiltered(docs, doc) == docs

OtherDocs(docs, doc) == SelectSeq(docs, LAMBDA d : d.filename # doc.filename)

\* _create_document_references
DocumentReferences(docs) ==
    ConcatChoices([d \in 1..Len(docs) |->
        LET other_docs == OtherDocs(docs, docs[d])
        IN IF other_docs # <<>>
           THEN UNION { {EdgesTo(docs[d], s, "document_reference") : s \in Sample(other_docs, n)}
                        : n \in RandInt(1, Min(3, Len(other_docs))) }
           ELSE {<<>>}])

\* _create_spreadsheet_references raises ValueError when randint(2, 1) is called
SpreadsheetReferencesRaise(sheets, other_files) ==
    /\ sheets # <<>>
    /\ other_files # <<>>
    /\ RandInt(2, Min(4, Len(other_files))) = {}

\* _create_spreadsheet_references
SpreadsheetReferences(sheets, other_files) ==
    ConcatChoices([x \in 1..Len(sheets) |->
        IF other_files # <<>>
        THEN UNION { {EdgesTo(sheets[x], s, "data_source") : s \in Sample(other_files, n)}
                     : n \in RandInt(2, Min(4, Len(other_files))) }
        ELSE {<<>>}])

\* possible_containers of _create_password_references
PossibleContainers(files, protected_name) ==
    SelectSeq(files, LAMBDA f : f.filename # protected_name /\ f.file_type \in {"eml", "txt", "docx"})

\* _create_password_references
PasswordReferences(files) ==
    LET password_protected == SelectSeq(encoded_files, LAMBDA f : f.password # NoPassword)
    IN ConcatChoices([k \in 1..Len(password_protected) |->
        LET pf == password_protected[k]
            name == pf.original_plan.filename
            cs == PossibleContainers(files, name)
        IN {<<>>} \cup
           {<<Ref(cs[c].filename, name, "password", Ctx(name, pf.password, NoProject))>>
              : c \in 1..Len(cs)}])

\* _create_backup_references
BackupReferences(docs, sheets) ==
    LET some == Prefix(docs, Len(docs) \div 3)
    IN ConcatChoices([d \in 1..Len(some) |->
        IF sheets # <<>>
        THEN {<<Ref(some[d].filename, sheets[b].filename, "backup",
                    Ctx(sheets[b].filename, NoPassword, NoProject))>> : b \in 1..Len(sheets)}
        ELSE {<<>>}])

\* _create_data_references
DataReferences(sheets, docs) ==
    LET some == Prefix(sheets, Len(sheets) \div 2)
    IN ConcatChoices([x \in 1..Len(some) |->
        IF docs # <<>>
        THEN {<<Ref(some[x].filename, docs[d].filename, "data",
                    Ctx(docs[d].filename, NoPassword, NoProject))>> : d \in 1..Len(docs)}
        ELSE {<<>>}])

\* the keys of a dict filled in the order of ks, in insertion order
RECURSIVE KeyOrder(_, _)
KeyOrder(ks, seen) ==
    IF ks = <<>> THEN <<>>
    ELSE IF Head(ks) \in seen THEN KeyOrder(Tail(ks), seen)
    ELSE <<Head(ks)>> \o KeyOrder(Tail(ks), seen \cup {Head(ks)})

\* the edges of one group of _create_project_references / its members in order
ProjectGroupEdges(project, files) ==
    IF Len(files) > 1
    THEN ConcatChoices([m \in 1..Len(files) |->
            LET other_project_files == SelectSeq(files, LAMBDA f : f.filename # files[m].filename)
            IN IF other_project_files # <<>>
               THEN UNION { { [j \in 1..n |->
                                 Ref(files[m].filename, s[j].filename, "project_reference",
                                     Ctx(s[j].filename, NoPassword, project))]
                              : s \in Sample(other_project_files, n) }
                            : n \in RandInt(1, Min(2, Len(other_project_files))) }
               ELSE {<<>>}])
    ELSE {<<>>}

\* the assignments of files to projects the first loop can make
ProjectAssignments(all_files) ==
    {a \in [1..Len(all_files) -> ProjectNames \cup {NoProject}] :
        Cardinality({i \in 1..Len(all_files) : a[i] # NoProject}) <= MaxProjectFiles}

\* _create_project_references
ProjectReferences(all_files) ==
    UNION { LET assigned == SelectSeq([i \in 1..Len(all_files) |-> a[i]], LAMBDA x : x # NoProject)
                order == KeyOrder(assigned, {})
                members(pr) == LET idx == SelectSeq([i \in 1..Len(all_files) |-> i],
                                                    LAMBDA i : a[i] = pr)
                               IN [j \in 1..Len(idx) |-> all_files[idx[j]]]
            IN ConcatChoices([g \in 1..Len(order) |-> ProjectGroupEdges(order[g], members(order[g]))])
          : a \in ProjectAssignments(all_files) }

\* the version indicators _create_version_references removes from a name
VersionIndicators == {"_v2", "_v3", "_final", "_draft", "_copy", "_backup", "_old"}

\* the base name with the extension removed and the indicators kept
BaseName_KeepSuffix(filename) == [base |-> filename.base, suffix |-> filename.suffix]

\* base_name of _create_version_references: the name without indicators and extension
BaseName(filename) ==
    [base |-> filename.base,
     suffix |-> IF filename.suffix \in VersionIndicators THEN "" ELSE filename.suffix]

\* _create_version_references (deterministic up to the phrasing)
VersionReferences(all_files) ==
    LET keys == KeyOrder([i \in 1..Len(all_files) |-> BaseName(all_files[i].filename)], {})
        group(bn) == SelectSeq(all_files, LAMBDA f : BaseName(f.filename) = bn)
        groupEdges(files) ==
            IF Len(files) > 1
            THEN ConcatChoices([m \in 1..Len(files) |->
                    {EdgesTo(files[m], SelectSeq(files, LAMBDA f : f.filename # files[m].filename),
                             "version_reference")}])
            ELSE {<<>>}
    IN ConcatChoices([g \in 1..Len(keys) |-> groupEdges(group(keys[g]))])

\* the lists of edges the pass at position p can append
PassEdges(p) ==
    CASE p = "attach"   -> EmailAttachments(emails, documents \o spreadsheets \o images)
      [] p = "embed"    -> DocumentImageEmbeddings(documents, images)
      [] p = "docref"   -> DocumentReferences(documents)
      [] p = "sheetref" -> SpreadsheetReferences(spreadsheets, documents \o images)
      [] p = "pwref"    -> PasswordReferences(plans)
      [] p = "backup"   -> BackupReferences(documents, spreadsheets)
      [] p = "data"     -> DataReferences(spreadsheets, documents)
      [] p = "project"  -> ProjectReferences(plans)
      [] p = "version"  -> VersionReferences(plans)

PassRaises(p) ==
    p = "sheetref" /\ SpreadsheetReferencesRaise(spreadsheets, documents \o images)

\* a relation pass that runs to its end
Pass(p) ==
    /\ pc = p
    /\ ~PassRaises(p)
    /\ \E edges \in PassEdges(p) : file_references' = file_references \o edges
    /\ pc' = After(p)
    /\ UNCHANGED <<plans, encoded_files, passwords, error, disk, wi, image_refs, planVars, encVars,
                   mainVars>>

\* a relation pass that raises: the exception leaves create_file_network
PassRaise(p) ==
    /\ pc = p
    /\ PassRaises(p)
    /\ pc' = "raised"
    /\ error' = "ValueError"
    /\ UNCHANGED <<plans, encoded_files, passwords, file_references, image_refs, planVars, disk, wi, encVars, mainVars>>

CreateEmailAttachments == Pass("attach")
CreateDocumentImageEmbeddings == Pass("embed")
CreateDocumentReferences == Pass("docref")
CreateSpreadsheetReferences == Pass("sheetref")
CreateSpreadsheetReferencesRaises == PassRaise("sheetref")
CreatePasswordReferences == Pass("pwref")
CreateBackupReferences == Pass("backup")
CreateDataReferences == Pass("data")
CreateProjectReferences == Pass("project")
CreateVersionReferences == Pass("version")

(***************************************************************************)
(* create_file_network: content rewriting and password hints               *)
(***************************************************************************)
\* bytes.decode('utf-8', errors='ignore').encode('utf-8') on one stretch:
\* valid UTF-8 comes back unchanged, other bytes are dropped
Lossy(c) == IF c.utf8 THEN c ELSE [c EXCEPT !.k = "lossy", !.utf8 = TRUE]
Utf8Ignore(content) == [n \in 1..Len(content) |-> Lossy(content[n])]

Line(sec, ctx) == [sec |-> sec, ctx |-> ctx]

\* the references whose source is the given file, in graph order
RefsFrom(filename) == SelectSeq(file_references, LAMBDA r : r.source_file = filename)

\* the regenerated email without the security notes
GenerateEmailWithReferences_NoNotes(i, attachments, password_refs, fake) ==
    LET grp(exts) == SelectSeq(attachments, LAMBDA r : r.target_file.ext \in exts)
        lines(rs, sec) == [n \in 1..Len(rs) |-> Line(sec, Ctx(rs[n].target_file, NoPassword, NoProject))]
    IN <<[Chunk("email", i, NONE, TRUE,
                lines(grp({"pdf", "docx", "txt"}), "documents")
                \o lines(grp({"jpg", "png"}), "images")
                \o lines(grp({"xlsx", "csv"}), "data"))
            EXCEPT !.headers = Headers(fake, "", Len(attachments))]>>

\* _generate_email_with_references: new header values drawn from Faker (fake),
\* the Date line formatted with %z of a naive datetime, the X-Attachments
\* count, then the attachment lines grouped as documents, images and data,
\* then the security notes
GenerateEmailWithReferences(i, attachments, password_refs, fake) ==
    LET grp(exts) == SelectSeq(attachments, LAMBDA r : r.target_file.ext \in exts)
        lines(rs, sec) == [n \in 1..Len(rs) |-> Line(sec, Ctx(rs[n].target_file, NoPassword, NoProject))]
    IN <<[Chunk("email", i, NONE, TRUE,
                lines(grp({"pdf", "docx", "txt"}), "documents")
                \o lines(grp({"jpg", "png"}), "images")
                \o lines(grp({"xlsx", "csv"}), "data")
                \o [n \in 1..Len(password_refs) |-> Line("security", password_refs[n].context)])
            EXCEPT !.headers = Headers(fake, "", Len(attachments))]>>

\* the body of the loop of _update_email_content_with_references for file i
\* the files _update_email_content_with_references regenerates
RegeneratedEmails ==
    {i \in 1..Len(encoded_files) :
        /\ encoded_files[i].original_plan.file_type = "eml"
        /\ RefsFrom(encoded_files[i].original_plan.filename) # <<>>}

UpdatedEmail(i, fake) ==
    LET ef == encoded_files[i]
        email_refs == RefsFrom(ef.original_plan.filename)
    IN IF i \in RegeneratedEmails
       THEN [ef EXCEPT !.encoded_content =
                GenerateEmailWithReferences(i,
                    SelectSeq(email_refs, LAMBDA r : r.reference_type = "attachment"),
                    SelectSeq(email_refs, LAMBDA r : r.reference_type = "password"),
                    fake[i])]
       ELSE ef

\* the loop body appending the reference list to every document type
UpdatedDocument_AnyType(i) ==
    LET ef == encoded_files[i]
        doc_refs == RefsFrom(ef.original_plan.filename)
    IN IF ef.original_plan.file_type \in {"txt", "docx", "pdf"} /\ doc_refs # <<>>
       THEN [ef EXCEPT !.encoded_content =
                Utf8Ignore(ef.encoded_content)
                \o <<Chunk("reflist", i, NONE, TRUE,
                           [n \in 1..Len(doc_refs) |-> Line("ref", doc_refs[n].context)])>>]
       ELSE ef

\* the body of the loop of _update_document_content_with_references for file i
UpdatedDocument(i) ==
    LET ef == encoded_files[i]
        doc_refs == RefsFrom(ef.original_plan.filename)
    IN IF ef.original_plan.file_type \in {"txt", "docx"} /\ doc_refs # <<>>
          /\ ef.original_plan.file_type = "txt"
       THEN [ef EXCEPT !.encoded_content =
                Utf8Ignore(ef.encoded_content)
                \o <<Chunk("reflist", i, NONE, TRUE,
                           [n \in 1..Len(doc_refs) |-> Line("ref", doc_refs[n].context)])>>]
       ELSE ef

\* the body of the loop of _update_spreadsheet_content_with_references for file i
UpdatedSpreadsheet(i) ==
    LET ef == encoded_files[i]
        sheet_refs == RefsFrom(ef.original_plan.filename)
    IN IF ef.original_plan.file_type \in {"csv"} /\ sheet_refs # <<>>
       THEN [ef EXCEPT !.encoded_content =
                <<Chunk("csvrefs", i, NONE, TRUE,
                        [n \in 1..Len(sheet_refs) |-> Line("ref", sheet_refs[n].context)])>>
                \o Utf8Ignore(ef.encoded_content)]
       ELSE ef

Rewrite(p, updated) ==
    /\ pc = p
    /\ encoded_files' = updated
    /\ pc' = After(p)
    /\ UNCHANGED <<plans, passwords, file_references, image_refs, planVars, error, disk, wi, encVars, mainVars>>

UpdateEmailContentWithReferences ==
    \E fake \in [RegeneratedEmails -> 1..NumFake] :
        Rewrite("upd_email", [i \in 1..Len(encoded_files) |-> UpdatedEmail(i, fake)])
UpdateDocumentContentWithReferences ==
    Rewrite("upd_doc", [i \in 1..Len(encoded_files) |-> UpdatedDocument(i)])
UpdateSpreadsheetContentWithReferences ==
    Rewrite("upd_sheet", [i \in 1..Len(encoded_files) |-> UpdatedSpreadsheet(i)])

\* hint_formats: what each of the five phrasings quotes
HintFormat(n, protected_filename, password) ==
    IF n = 3 THEN Ctx(NoFile, password, NoProject)
    ELSE Ctx(protected_filename, password, NoProject)

\* text_files of _distribute_password_hints, as indices into encoded_files
TextFiles ==
    SelectSeq([i \in 1..Len(encoded_files) |-> i],
              LAMBDA i : encoded_files[i].original_plan.file_type \in {"txt", "docx"})

\* list(self.passwords.items()), in insertion order
PasswordItems ==
    LET names == KeyOrder([i \in 1..Len(encoded_files) |-> encoded_files[i].original_plan.filename],
                          PlanNames \ DOMAIN passwords)
    IN [n \in 1..Len(names) |-> <<names[n], passwords[names[n]]>>]

\* the carrier of the i-th shuffled password with the hint appended
WithHint(ef, i, protected_filename, hint) ==
    IF ef.original_plan.file_type = "txt"
    THEN [ef EXCEPT !.encoded_content =
             Utf8Ignore(ef.encoded_content)
             \o <<[Chunk("hint", i, NONE, TRUE, <<Line("hint", hint)>>)
                     EXCEPT !.protects = protected_filename]>>]
    ELSE ef

\* the slice without the halving: one slot per registry entry and text file
HintSlots_NoHalf(all_passwords, text_files) == Min(Len(all_passwords), Len(text_files))

\* the number of iterations of the loop over all_passwords[:len(text_files)//2]
\* that pass the test i < len(text_files)
HintSlots(all_passwords, text_files) == Min(Len(all_passwords), Len(text_files) \div 2)

\* _distribute_password_hints
DistributePasswordHints ==
    /\ pc = "hints"
    /\ LET text_files == TextFiles
           all_passwords == PasswordItems
           k == HintSlots(all_passwords, text_files)
       IN \E shuffled \in Sample(all_passwords, k) :
          \E fmt \in [1..k -> 1..5] :
             encoded_files' =
                [n \in 1..Len(encoded_files) |->
                    IF \E i \in 1..k : text_files[i] = n
                    THEN LET i == CHOOSE i \in 1..k : text_files[i] = n
                         IN WithHint(encoded_files[n], i, shuffled[i][1],
                                     HintFormat(fmt[i], shuffled[i][1], shuffled[i][2]))
                    ELSE encoded_files[n]]
    /\ pc' = After("hints")
    /\ UNCHANGED <<plans, passwords, file_references, image_refs, planVars, error, disk, wi, encVars, mainVars>>

(***************************************************************************)
(* generate_chaff_files: writing the encoded files                         *)
(***************************************************************************)
\* a name in the target directory: the planned filename, or with n > 0 the
\* name '<stem>_<n>.<ext>' create_linked_file falls back to
DiskName(filename, n) == [fn |-> filename, n |-> n]

\* get_actual_filename
GetActualFilename(encoded_file) == DiskName(encoded_file.original_plan.filename, 0)

DiskNames == {f.name : f \in disk}

\* the path without the loop over existing paths
FreePath_Overwrite(name) == name

\* the path create_linked_file ends on: the first one that does not exist
FreePath(name) ==
    IF name \notin DiskNames THEN name
    ELSE LET counter == CHOOSE c \in 1..(Cardinality(disk) + 1) :
                           /\ DiskName(name.fn, c) \notin DiskNames
                           /\ \A b \in 1..(c - 1) : DiskName(name.fn, b) \in DiskNames
         IN DiskName(name.fn, counter)

\* create_linked_file for the next encoded file
CreateLinkedFile ==
    /\ pc = "returned"
    /\ wi <= Len(encoded_files)
    /\ LET ef == encoded_files[wi]
       IN disk' = disk \cup {[name |-> FreePath(GetActualFilename(ef)),
                              data |-> ef.encoded_content,
                              encoding_method |-> ef.encoding_method]}
    /\ wi' = wi + 1
    /\ pc' = IF wi = Len(encoded_files) THEN "written" ELSE pc
    /\ UNCHANGED <<plans, encoded_files, passwords, file_references, image_refs, planVars, error, encVars, mainVars>>

\* the counting step with the count set to 1 instead of incremented
Counted_Overwrite(summary, method) ==
    [k \in DOMAIN summary \cup {method} |-> IF k = method THEN 1 ELSE summary[k]]

\* summary[method] = summary.get(method, 0) + 1
Counted(summary, method) ==
    [k \in DOMAIN summary \cup {method} |->
        IF k = method THEN (IF method \in DOMAIN summary THEN summary[method] ELSE 0) + 1
        ELSE summary[k]]

\* the loop of get_encoding_summary over a list of encoded files
RECURSIVE SummaryOf(_)
SummaryOf(efs) ==
    IF efs = <<>> THEN <<>>
    ELSE Counted(SummaryOf(SubSeq(efs, 1, Len(efs) - 1)), efs[Len(efs)].encoding_method)

\* get_encoding_summary: method value -> number of files
GetEncodingSummary == SummaryOf(encoded_files)

\* the sum of the counts of a summary
RECURSIVE SumValues(_)
SumValues(summary) ==
    IF DOMAIN summary = {} THEN 0
    ELSE LET k == CHOOSE x \in DOMAIN summary : TRUE
         IN summary[k] + SumValues([x \in DOMAIN summary \ {k} |-> summary[x]])

\* detect_encoding_method of the decoder, on the name of a written file;
\* opens_as_zip: whether zipfile.ZipFile accepts the file of that name
DetectEncodingMethod(name, opens_as_zip) ==
    IF name.fn.ext = "b64" THEN "base64"
    ELSE IF name.fn.ext = "enc" THEN "encrypted_fernet"
    ELSE IF name.fn.ext = "zip" THEN "zip"
    ELSE IF name.fn.ext = "dat" THEN "unknown"
    ELSE IF opens_as_zip THEN "zip"
    ELSE "None"

(***************************************************************************)
(* The pipeline specification                                              *)
(***************************************************************************)
\* main is not part of the run: create_file_network is called on its own
MainIdle ==
    /\ dry_run = FALSE
    /\ warnings = {}
    /\ response = ""
    /\ result = -1

\* the planner before generate_file_plan is called, with the defaults of
\* ChaffSettings.__init__ scaled down
PlanIdle ==
    /\ settings = [fill_drive |-> FALSE, min_file_size |-> 1, max_file_size |-> 2,
                   minimum_remaining_disk_space |-> 1, min_file_count |-> 1,
                   max_file_count |-> 2, available_space |-> 0]
    /\ file_count = 0
    /\ avg_size = 0
    /\ sizes = <<>>

EncIdle ==
    /\ e_content = <<>>
    /\ e_method = NONE
    /\ e_password = NoPassword
    /\ e_out = <<>>
    /\ e_dec = <<>>

Init ==
    /\ plans \in PlanLists
    /\ image_refs = <<>>
    /\ encoded_files = <<>>
    /\ passwords = <<>>
    /\ file_references = <<>>
    /\ pc = "encode"
    /\ error = "none"
    /\ disk = {}
    /\ wi = 1
    /\ EncIdle
    /\ MainIdle
    /\ PlanIdle

Next ==
    \/ EncodeStep
    \/ CreateEmailAttachments
    \/ CreateDocumentImageEmbeddings
    \/ CreateDocumentReferences
    \/ CreateSpreadsheetReferences
    \/ CreateSpreadsheetReferencesRaises
    \/ CreatePasswordReferences
    \/ CreateBackupReferences
    \/ CreateDataReferences
    \/ CreateProjectReferences
    \/ CreateVersionReferences
    \/ UpdateEmailContentWithReferences
    \/ UpdateDocumentContentWithReferences
    \/ UpdateSpreadsheetContentWithReferences
    \/ DistributePasswordHints
    \/ CreateLinkedFile

Spec == Init /\ [][Next]_vars

(***************************************************************************)
(* FileEncoder.encode_file and the decoders, on byte strings               *)
(***************************************************************************)
\* longest content encoded
MaxLen == 102

\* the byte strings encoded: an arithmetic progression of bytes from a, step d
Pattern(n, a, d) == [i \in 1..n |-> (a + d * (i - 1)) % 256]
Seeds == {<<104, 7>>, <<251, 4>>, <<255, 0>>}
Contents == {Pattern(n, sd[1], sd[2]) : n \in 0..MaxLen, sd \in Seeds}

\* the passwords a caller passes: None, '' and a real one
EmptyString == <<"">>
SuppliedPasswords == {NoPassword, EmptyString, <<"caller", 1>>}

\* os.urandom(16)
SaltLen == 16
Salts == {[i \in 1..SaltLen |-> b] : b \in {0, 200}}

\* ASCII codes
PAD == 61
NEWLINE == 10

\* the standard base64 alphabet: the character of a 6-bit value
B64Char(v) ==
    IF v < 26 THEN 65 + v
    ELSE IF v < 52 THEN 97 + (v - 26)
    ELSE IF v < 62 THEN 48 + (v - 52)
    ELSE IF v = 62 THEN 43
    ELSE 47

\* the 6-bit value of a character of the standard alphabet, -1 for any other
B64Value(c) ==
    IF c >= 65 /\ c <= 90 THEN c - 65
    ELSE IF c >= 97 /\ c <= 122 THEN c - 97 + 26
    ELSE IF c >= 48 /\ c <= 57 THEN c - 48 + 52
    ELSE IF c = 43 THEN 62
    ELSE IF c = 47 THEN 63
    ELSE -1

\* the byte at position n of b, 0 past its end
ByteAt(b, n) == IF n <= Len(b) THEN b[n] ELSE 0

\* base64.b64encode: four characters per group of three bytes, '=' where the
\* last group has no second or third byte
B64Encode(b) ==
    [j \in 1..(4 * ((Len(b) + 2) \div 3)) |->
        LET g == (j - 1) \div 4
            pos == (j - 1) % 4
            x == ByteAt(b, 3 * g + 1)
            y == ByteAt(b, 3 * g + 2)
            z == ByteAt(b, 3 * g + 3)
        IN IF pos = 0 THEN B64Char(x \div 4)
           ELSE IF pos = 1 THEN B64Char((x % 4) * 16 + y \div 16)
           ELSE IF pos = 2 THEN (IF 3 * g + 2 > Len(b) THEN PAD ELSE B64Char((y % 16) * 4 + z \div 64))
           ELSE (IF 3 * g + 3 > Len(b) THEN PAD ELSE B64Char(z % 64))]

\* bytes.translate between '+/' and '-_'
ToUrlSafe(s) == [i \in 1..Len(s) |-> IF s[i] = 43 THEN 45 ELSE IF s[i] = 47 THEN 95 ELSE s[i]]
FromUrlSafe(s) == [i \in 1..Len(s) |-> IF s[i] = 45 THEN 43 ELSE IF s[i] = 95 THEN 47 ELSE s[i]]

\* base64.urlsafe_b64encode
UrlSafeB64Encode(b) == ToUrlSafe(B64Encode(b))

\* [encoded[i:i+64] for i in range(0, len(encoded), 64)] joined by b'\n':
\* a newline after every full line that is followed by more
LineWidth == 64
\* every line, the last included, terminated by a newline
JoinLines_Terminated(encoded) ==
    [j \in 1..(Len(encoded) + (Len(encoded) + LineWidth - 1) \div LineWidth) |->
        IF j % (LineWidth + 1) = 0 \/ j = Len(encoded) + (Len(encoded) + LineWidth - 1) \div LineWidth
        THEN NEWLINE ELSE encoded[j - j \div (LineWidth + 1)]]

JoinLines(encoded) ==
    [j \in 1..(Len(encoded) + (IF Len(encoded) = 0 THEN 0 ELSE (Len(encoded) - 1) \div LineWidth)) |->
        IF j % (LineWidth + 1) = 0 THEN NEWLINE ELSE encoded[j - j \div (LineWidth + 1)]]

DecodeError == <<-1>>

\* the bytes of a run of 6-bit values: three per full quad, one or two for a
\* trailing pair or triple
SextetsToBytes(v) ==
    [k \in 1..(3 * (Len(v) \div 4) + (IF Len(v) % 4 = 2 THEN 1 ELSE IF Len(v) % 4 = 3 THEN 2 ELSE 0)) |->
        LET g == (k - 1) \div 3
            pos == (k - 1) % 3
            a == v[4 * g + 1 + pos]
            b == v[4 * g + 2 + pos]
        IN IF pos = 0 THEN a * 4 + b \div 16
           ELSE IF pos = 1 THEN (a % 16) * 16 + b \div 4
           ELSE (a % 4) * 64 + b]

\* binascii.a2b_base64 without validation: characters outside the alphabet are
\* skipped; a '=' ends the input when three characters of a quad were read, or
\* two and the '=' follows another '='; an unfinished quad at the end of the
\* input is "Incorrect padding"
A2B(s) ==
    LET r == SelectSeq(s, LAMBDA c : c = PAD \/ B64Value(c) >= 0)
        data(p) == SelectSeq(SubSeq(r, 1, p - 1), LAMBDA c : c # PAD)
        quad(p) == Len(data(p)) % 4
        stops == {p \in 1..Len(r) :
                    /\ r[p] = PAD
                    /\ \/ quad(p) = 3
                       \/ quad(p) = 2 /\ p > 1 /\ r[p - 1] = PAD}
        vals(p) == LET d == data(p) IN [n \in 1..Len(d) |-> B64Value(d[n])]
    IN IF stops # {}
       THEN SextetsToBytes(vals(CHOOSE p \in stops : \A q \in stops : p <= q))
       ELSE IF quad(Len(r) + 1) # 0 THEN DecodeError
       ELSE SextetsToBytes(vals(Len(r) + 1))

\* base64.b64decode
B64Decode(s) == A2B(s)

\* base64.urlsafe_b64decode
UrlSafeB64Decode(s) == B64Decode(FromUrlSafe(s))

\* bytes.replace(b'\n', b'')
RemoveNewlines(s) == SelectSeq(s, LAMBDA c : c # NEWLINE)

\* `not password`
Falsy(password) == password \in {NoPassword, EmptyString}

\* a number standing for a byte string (a polynomial hash)
RECURSIVE HashBytes(_)
HashBytes(b) == IF b = <<>> THEN 7 ELSE (HashBytes(SubSeq(b, 1, Len(b) - 1)) * 31 + b[Len(b)]) % 1000003

\* PBKDF2HMAC(SHA256, salt, 100000).derive(password), urlsafe-base64 encoded:
\* a number standing for the key, different for different (password, salt)
DeriveKey(password, salt) ==
    (IF password[1] = "medium" THEN 1 ELSE IF password[1] = "strong" THEN 2 ELSE 3) * 10000019
    + password[2] * 1000003 + HashBytes(salt)

\* Fernet(key).encrypt(content): the token is bound to the key by its HMAC,
\* here a leading symbol above the byte range that names the key
FernetEncrypt(key, content) == <<256 + key>> \o content

InvalidToken == <<-2>>

\* Fernet(key).decrypt(token)
FernetDecrypt(key, token) ==
    IF Len(token) >= 1 /\ token[1] = 256 + key THEN Tail(token) ELSE InvalidToken

Metadata(encoding, format, encryption, compression, password, salt) ==
    [encoding |-> encoding, format |-> format, encryption |-> encryption,
     compression |-> compression, password |-> password, salt |-> salt]

\* pyzipper.AESZipFile written with setpassword and writestr
Archive(compression, password, entries) ==
    [archive |-> "aes", compression |-> compression, password |-> password, entries |-> entries]
Entry(name, data) == [name |-> name, data |-> data]

\* b"d41d8cd98f00b204e9800998ecf8427e"
Checksum == <<100, 52, 49, 100, 56, 99, 100, 57, 56, 102, 48, 48, 98, 50, 48, 52,
              101, 57, 56, 48, 48, 57, 57, 56, 101, 99, 102, 56, 52, 50, 55, 101>>

\* the entries ZIP_ENCRYPTED writes
\* the second entry written from 100 bytes on, the first split above 100 only
ZipEncryptedEntries_OffByOne(content) ==
    <<Entry("document.dat", IF Len(content) > 100
                            THEN SubSeq(content, 1, Len(content) \div 2) ELSE content)>>
    \o (IF Len(content) >= 100
        THEN <<Entry("metadata.txt", SubSeq(content, Len(content) \div 2 + 1, Len(content)))>>
        ELSE <<>>)
    \o <<Entry("checksum.md5", Checksum)>>

ZipEncryptedEntries(content) ==
    <<Entry("document.dat", IF Len(content) > 100
                            THEN SubSeq(content, 1, Len(content) \div 2) ELSE content)>>
    \o (IF Len(content) > 100
        THEN <<Entry("metadata.txt", SubSeq(content, Len(content) \div 2 + 1, Len(content)))>>
        ELSE <<>>)
    \o <<Entry("checksum.md5", Checksum)>>

\* the password encode_file uses: the caller's, or a generated one
UsedPasswords(password, strength) ==
    IF Falsy(password) THEN GeneratePassword(strength) ELSE {password}

\* the key derived from one salt, another one written in front of the token
EncodeFernet_OtherSalt(content, password) ==
    {[encoded |-> written \o FernetEncrypt(DeriveKey(pw, salt), content),
      metadata |-> Metadata("", "", "fernet", "", pw, B64Encode(salt))]
       : pw \in UsedPasswords(password, "medium"), salt \in Salts, written \in Salts}

\* encode_file, ENCRYPTED_FERNET: salt + token
EncodeFernet(content, password) ==
    {[encoded |-> salt \o FernetEncrypt(DeriveKey(pw, salt), content),
      metadata |-> Metadata("", "", "fernet", "", pw, B64Encode(salt))]
       : pw \in UsedPasswords(password, "medium"), salt \in Salts}

\* encode_file, ZIP_PASSWORD
EncodeZipPassword(content, password) ==
    {[encoded |-> Archive("lzma", pw, <<Entry("data.bin", content)>>),
      metadata |-> Metadata("", "", "aes", "zip", pw, <<>>)]
       : pw \in UsedPasswords(password, "medium")}

\* encode_file, ZIP_ENCRYPTED
EncodeZipEncrypted(content, password) ==
    {[encoded |-> Archive("deflated", pw, ZipEncryptedEntries(content)),
      metadata |-> Metadata("", "", "aes256", "zip", pw, <<>>)]
       : pw \in UsedPasswords(password, "strong")}

\* encode_file: the results [encoded, metadata] it can return
EncodeFile(content, method, password) ==
    IF method = "base64"
    THEN {[encoded |-> B64Encode(content), metadata |-> Metadata("base64", "", "", "", NoPassword, <<>>)]}
    ELSE IF method = "base64_multiline"
    THEN {[encoded |-> JoinLines(B64Encode(content)),
           metadata |-> Metadata("base64", "multiline", "", "", NoPassword, <<>>)]}
    ELSE IF method = "base64_urlsafe"
    THEN {[encoded |-> UrlSafeB64Encode(content),
           metadata |-> Metadata("base64url", "", "", "", NoPassword, <<>>)]}
    ELSE IF method = "encrypted_fernet" THEN EncodeFernet(content, password)
    ELSE IF method = "zip_password" THEN EncodeZipPassword(content, password)
    ELSE IF method = "zip_encrypted" THEN EncodeZipEncrypted(content, password)
    ELSE {[encoded |-> content, metadata |-> Metadata("none", "", "", "", NoPassword, <<>>)]}

\* decode_encrypted_file: the salt is the first 16 bytes, the token the rest
DecodeEncryptedFile(encrypted_data, password) ==
    LET salt == SubSeq(encrypted_data, 1, Min(16, Len(encrypted_data)))
        encrypted_content == SubSeq(encrypted_data, 17, Len(encrypted_data))
    IN FernetDecrypt(DeriveKey(password, salt), encrypted_content)

\* decode_zip_file: the entries extractall writes, or the error of a wrong password
DecodeZipFile(archive, password) ==
    IF archive.password = password THEN archive.entries ELSE <<Entry("error", <<>>)>>

\* the decoding that matches a method (test_pdf_pipeline, decode_chaff)
MatchingDecode(method, out) ==
    IF method = "base64" THEN B64Decode(out.encoded)
    ELSE IF method = "base64_urlsafe" THEN UrlSafeB64Decode(out.encoded)
    ELSE IF method = "base64_multiline" THEN B64Decode(RemoveNewlines(out.encoded))
    ELSE IF method = "encrypted_fernet" THEN DecodeEncryptedFile(out.encoded, out.metadata.password)
    ELSE IF method \in {"zip_password", "zip_encrypted"} THEN DecodeZipFile(out.encoded, out.metadata.password)
    ELSE out.encoded

PipeIdle ==
    /\ plans = <<>>
    /\ image_refs = <<>>
    /\ encoded_files = <<>>
    /\ passwords = <<>>
    /\ file_references = <<>>
    /\ error = "none"
    /\ disk = {}
    /\ wi = 1

EncInit ==
    /\ PipeIdle
    /\ MainIdle
    /\ PlanIdle
    /\ pc = "encoder"
    /\ e_content \in Contents
    /\ e_method \in SeqToSet(EncodingMethod)
    /\ e_password \in SuppliedPasswords
    /\ e_out = <<>>
    /\ e_dec = <<>>

\* a call of encode_file
EncodeFileCall ==
    /\ pc = "encoder"
    /\ \E out \in EncodeFile(e_content, e_method, e_password) : e_out' = out
    /\ pc' = "encoded"
    /\ UNCHANGED <<plans, encoded_files, passwords, file_references, image_refs, planVars, error, disk, wi,
                   e_content, e_method, e_password, e_dec, mainVars>>

\* the matching decoder applied to the result
DecodeCall ==
    /\ pc = "encoded"
    /\ e_dec' = MatchingDecode(e_method, e_out)
    /\ pc' = "decoded"
    /\ UNCHANGED <<plans, encoded_files, passwords, file_references, image_refs, planVars, error, disk, wi,
                   e_content, e_method, e_password, e_out, mainVars>>

EncNext == EncodeFileCall \/ DecodeCall

EncSpec == EncInit /\ [][EncNext]_vars

(***************************************************************************)
(* The relation passes, the rewriting and the hint distribution on lists   *)
(* with up to four text files, from the end of the encoding loop to the    *)
(* return of create_file_network                                           *)
(***************************************************************************)
\* the plan lists: a protected file on its own, a docx file in the first
\* carrier slot, and two txt files in the two carrier slots of four text files
HintLists ==
    { <<Plan("txt", "report", "")>>,
      <<Plan("docx", "data", "_backup"), Plan("txt", "report", "")>>,
      <<Plan("txt", "report", ""), Plan("txt", "report", ""),
        Plan("docx", "data", "_backup"), Plan("docx", "data", "_backup")>> }

\* the draws of _choose_encoding_method followed in these runs
HintMethods == {NONE, "encrypted_fernet"}

\* the records one iteration of the encoding loop can append for plan i, for
\* a txt template output that is valid UTF-8 and a ciphertext that is not
EncodedOutcomes(ps, i) ==
    UNION {{EncodedFile(ps[i], res, method) :
               res \in {r \in EncodeResults(i, ps[i].file_type, method) :
                          ps[i].file_type = "txt" => r.content[1].utf8 = (method = NONE)}} :
           method \in ChooseEncodingMethod(ps[i].file_type) \cap HintMethods}

\* the lists of records the encoding loop can leave for a plan list
EncodedLists(ps) ==
    {efs \in [1..Len(ps) -> UNION {EncodedOutcomes(ps, i) : i \in 1..Len(ps)}] :
        \A i \in 1..Len(ps) : efs[i] \in EncodedOutcomes(ps, i)}

\* self.passwords as the encoding loop fills it: the password of the last
\* protected file of each filename
RegistryOf(efs) ==
    [name \in {efs[i].original_plan.filename :
                  i \in {j \in 1..Len(efs) : efs[j].password # NoPassword}} |->
        efs[CHOOSE i \in 1..Len(efs) :
                /\ efs[i].original_plan.filename = name
                /\ efs[i].password # NoPassword
                /\ \A j \in (i + 1)..Len(efs) :
                       ~(efs[j].original_plan.filename = name /\ efs[j].password # NoPassword)
           ].password]

HintInit ==
    /\ plans \in HintLists
    /\ encoded_files \in EncodedLists(plans)
    /\ passwords = RegistryOf(encoded_files)
    /\ image_refs \in {r \in [1..Len(plans) ->
                                UNION {ImageReferences(plans[i].file_type) : i \in 1..Len(plans)}] :
                         \A i \in 1..Len(plans) : r[i] \in ImageReferences(plans[i].file_type)}
    /\ file_references = <<>>
    /\ pc = After("encode")
    /\ error = "none"
    /\ disk = {}
    /\ wi = 1
    /\ EncIdle
    /\ MainIdle
    /\ PlanIdle

HintNext ==
    \/ CreateEmailAttachments
    \/ CreateDocumentImageEmbeddings
    \/ CreateDocumentReferences
    \/ CreateSpreadsheetReferences
    \/ CreatePasswordReferences
    \/ CreateBackupReferences
    \/ CreateDataReferences
    \/ CreateProjectReferences
    \/ CreateVersionReferences
    \/ UpdateEmailContentWithReferences
    \/ UpdateDocumentContentWithReferences
    \/ UpdateSpreadsheetContentWithReferences
    \/ DistributePasswordHints

HintSpec == HintInit /\ [][HintNext]_vars

(***************************************************************************)
(* main: validation, planning, dry run, confirmation, generation, cleanup  *)
(***************************************************************************)
\* most plans generate_file_plan returns in the runs explored
MaxFileCount == 2

\* settings.chaff_file_types (CHAFF_FILE_TYPES) of the runs explored
ChaffFileTypes == {"txt", "pdf", "xlsx"}

\* the warnings validate_settings returns in the runs explored: the one on the
\* file count range, the one on the disk space, both or none
WarningKinds == {"file count", "Not enough usable disk space"}

\* the test without lower(): the capitalised warning does not match
NotEnough_CaseSensitive(ws) == "not enough usable disk space" \in ws

\* any("not enough" in warning.lower() for warning in warnings)
NotEnough(ws) == "Not enough usable disk space" \in ws

\* what the user can type at the prompt
Responses == {"y", "YES", "n", "", " y"}

\* str.lower() on those answers
Lower(r) == IF r = "YES" THEN "yes" ELSE r

\* _generate_filename(file_type, language, index): the names it can return;
\* the index takes no part in the name
GenerateFilename(file_type, index) == {FN(n[1], n[2], file_type) : n \in Names}

\* the lists generate_file_plan can return for a file count
RECURSIVE PlansOfCount(_)
PlansOfCount(count) ==
    IF count = 0 THEN {<<>>}
    ELSE {Append(ps, [file_type |-> t, filename |-> f]) :
             ps \in PlansOfCount(count - 1),
             <<t, f>> \in UNION {{<<ft, fn>> : fn \in GenerateFilename(ft, count - 1)}
                                 : ft \in ChaffFileTypes}}

\* generate_file_plan: the file count is randint(min_file_count, max_file_count)
\* or, with fill_drive, what calculate_fill_drive_parameters returns (0: no plan)
GenerateFilePlan == UNION {PlansOfCount(count) : count \in 0..MaxFileCount}

\* main up to its first return or to the prompt
MainStart ==
    /\ pc = "main"
    /\ \E ws \in SUBSET WarningKinds, ps \in GenerateFilePlan :
          /\ warnings' = ws
          /\ IF NotEnough(ws)
             THEN /\ plans' = plans
                  /\ result' = 1
                  /\ pc' = "exit"
             ELSE /\ plans' = ps
                  /\ result' = IF ps = <<>> THEN 1 ELSE IF dry_run THEN 0 ELSE result
                  /\ pc' = IF ps = <<>> \/ dry_run THEN "exit" ELSE "confirm"
    /\ UNCHANGED <<encoded_files, passwords, file_references, image_refs, planVars, error, disk, wi, encVars,
                   dry_run, response>>

\* the answer at the prompt: generation goes on after y or yes
Confirm ==
    /\ pc = "confirm"
    /\ \E r \in Responses :
          /\ response' = r
          /\ IF Lower(r) \notin {"y", "yes"}
             THEN /\ result' = 0
                  /\ pc' = "exit"
             ELSE /\ result' = result
                  /\ pc' = "generate"
    /\ UNCHANGED <<plans, encoded_files, passwords, file_references, image_refs, planVars, error, disk, wi, encVars,
                   dry_run, warnings>>

\* whether create_file_network can raise on the plans: encode_file for a
\* password method, or randint(2, 1) in _create_spreadsheet_references
NetworkCanRaise ==
    \/ \E i \in 1..Len(plans) : \E method \in ChooseEncodingMethod(plans[i].file_type) : CanFail(method)
    \/ SpreadsheetReferencesRaise(spreadsheets, documents \o images)

\* whether create_file_network can return: randint(2, 1) is certain when a
\* spreadsheet has exactly one candidate
NetworkCanReturn == ~SpreadsheetReferencesRaise(spreadsheets, documents \o images)

\* the paths the write loop of generate_chaff_files creates in an empty target
\* directory: the planned name, or '<stem>_<n>.<ext>' for the n-th repetition
WrittenFiles ==
    {[name |-> DiskName(plans[i].filename,
                        Cardinality({j \in 1..(i - 1) : plans[j].filename = plans[i].filename}))]
        : i \in 1..Len(plans)}

\* generate_chaff_files as main calls it: the network, then the write loop;
\* an exception of create_file_network reaches main's handler, which returns 1
GenerateChaffFiles ==
    /\ pc = "generate"
    /\ \/ /\ NetworkCanReturn
          /\ disk' = WrittenFiles
          /\ pc' = "generated"
          /\ UNCHANGED <<error, result>>
       \/ /\ NetworkCanRaise
          /\ error' = "Exception"
          /\ result' = 1
          /\ pc' = "exit"
          /\ disk' = disk
    /\ UNCHANGED <<plans, encoded_files, passwords, file_references, image_refs, planVars, wi, encVars,
                   dry_run, warnings, response>>

\* cleanup_files: unlinks the path get_actual_filename gives for each file
CleanedUp(files) ==
    {f \in files : f.name \notin {DiskName(plans[i].filename, 0) : i \in 1..Len(plans)}}

\* main after generate_chaff_files: metadata, cleanup when
\* delete_after_completion is set, return 0
MainFinish ==
    /\ pc = "generated"
    /\ \E delete_after_completion \in BOOLEAN :
          disk' = IF delete_after_completion THEN CleanedUp(disk) ELSE disk
    /\ result' = 0
    /\ pc' = "exit"
    /\ UNCHANGED <<plans, encoded_files, passwords, file_references, image_refs, planVars, error, wi, encVars,
                   dry_run, warnings, response>>

MainInit ==
    /\ PipeIdle
    /\ EncIdle
    /\ PlanIdle
    /\ pc = "main"
    /\ dry_run \in BOOLEAN
    /\ warnings = {}
    /\ response = ""
    /\ result = -1

MainNext == MainStart \/ Confirm \/ GenerateChaffFiles \/ MainFinish

MainSpec == MainInit /\ [][MainNext]_vars

(***************************************************************************)
(* The planner: validate_settings, then generate_file_plan with its sizes  *)
(***************************************************************************)
\* largest min_file_size / max_file_size of the settings explored, in bytes
MaxFileSize == 3

\* largest min_file_count / max_file_count of the settings explored
MaxCount == 3

\* most free bytes get_available_disk_space reports in the runs explored
MaxDiskSpace == 6

\* largest minimum_remaining_disk_space of the settings explored
MaxReserved == 1

\* the settings ChaffSettings.__init__ can load, with the free space of the
\* target directory; nothing in it orders the minimum below the maximum
SettingsSpace ==
    [fill_drive : BOOLEAN,
     min_file_size : 0..MaxFileSize,
     max_file_size : 0..MaxFileSize,
     minimum_remaining_disk_space : 0..MaxReserved,
     min_file_count : 0..MaxCount,
     max_file_count : 0..MaxCount,
     available_space : 0..MaxDiskSpace]

\* usable_space = available_space - minimum_remaining_disk_space
UsableSpace(st) == st.available_space - st.minimum_remaining_disk_space

\* validate_settings: the warnings it returns (the target directory exists)
ValidateSettings(st) ==
    (IF st.min_file_size >= st.max_file_size THEN {"file size"} ELSE {})
    \cup (IF st.min_file_count >= st.max_file_count THEN {"file count"} ELSE {})
    \cup (IF UsableSpace(st) < st.min_file_count * st.min_file_size
          THEN {"Not enough usable disk space"} ELSE {})

\* avg_target_size = (min_file_size + max_file_size) // 2
AvgTargetSize(st) == (st.min_file_size + st.max_file_size) \div 2

\* calculate_fill_drive_parameters divides by avg_target_size: ZeroDivisionError
FillDriveRaises(st) == UsableSpace(st) > 0 /\ AvgTargetSize(st) = 0

\* calculate_fill_drive_parameters where it returns: <<file_count, avg_file_size>>
CalculateFillDriveParameters(st) ==
    IF UsableSpace(st) <= 0 THEN <<0, 0>>
    ELSE LET estimated_file_count == UsableSpace(st) \div AvgTargetSize(st)
             count == Max(st.min_file_count, Min(estimated_file_count, st.max_file_count))
         IN  <<count,
               IF count > 0
               THEN Max(st.min_file_size, Min(UsableSpace(st) \div count, st.max_file_size))
               ELSE st.min_file_size>>

\* total_allocated_size: the sum of the sizes planned so far
RECURSIVE TotalAllocatedSize(_)
TotalAllocatedSize(planned) ==
    IF planned = <<>> THEN 0
    ELSE planned[Len(planned)] + TotalAllocatedSize(SubSeq(planned, 1, Len(planned) - 1))

\* the body of the loop of generate_file_plan: the sizes file number
\* Len(planned) can get; empty where random.randint raises ValueError
FileSizes(st, count, avg, planned) ==
    LET target_total_size == count * avg
        remaining_files == count - Len(planned)
        remaining_space == target_total_size - TotalAllocatedSize(planned)
        max_for_this_file == Min(st.max_file_size,
                                 remaining_space - (remaining_files - 1) * st.min_file_size)
        min_for_this_file == Max(st.min_file_size,
                                 remaining_space - (remaining_files - 1) * st.max_file_size)
    IN  IF st.fill_drive /\ target_total_size # 0
        THEN IF remaining_files > 1
             THEN IF max_for_this_file >= min_for_this_file
                  THEN RandInt(min_for_this_file, max_for_this_file)
                  ELSE {st.min_file_size}
             ELSE {Max(st.min_file_size, Min(remaining_space, st.max_file_size))}
        ELSE RandInt(st.min_file_size, st.max_file_size)

\* main up to the planner: it returns 1 on the disk-space warning
PlanValidate ==
    /\ pc = "validate"
    /\ warnings' = ValidateSettings(settings)
    /\ IF NotEnough(ValidateSettings(settings))
       THEN result' = 1 /\ pc' = "exit"
       ELSE result' = result /\ pc' = "plan"
    /\ UNCHANGED <<plans, encoded_files, passwords, file_references, image_refs, error, disk, wi,
                   encVars, dry_run, response, planVars>>

\* generate_file_plan up to its loop: the file count and the average size
PlanStart ==
    /\ pc = "plan"
    /\ IF settings.fill_drive
       THEN IF FillDriveRaises(settings)
            THEN /\ error' = "ZeroDivisionError"
                 /\ pc' = "raised"
                 /\ UNCHANGED <<file_count, avg_size>>
            ELSE /\ file_count' = CalculateFillDriveParameters(settings)[1]
                 /\ avg_size' = CalculateFillDriveParameters(settings)[2]
                 /\ pc' = IF file_count' = 0 THEN "planned" ELSE "sizing"
                 /\ error' = error
       ELSE IF RandInt(settings.min_file_count, settings.max_file_count) = {}
            THEN /\ error' = "ValueError"
                 /\ pc' = "raised"
                 /\ UNCHANGED <<file_count, avg_size>>
            ELSE /\ \E count \in RandInt(settings.min_file_count, settings.max_file_count) :
                       /\ file_count' = count
                       /\ pc' = IF count = 0 THEN "planned" ELSE "sizing"
                 /\ avg_size' = AvgTargetSize(settings)
                 /\ error' = error
    /\ UNCHANGED <<plans, encoded_files, passwords, file_references, image_refs, disk, wi,
                   encVars, mainVars, settings, sizes>>

\* one iteration of the loop of generate_file_plan: the size of the next plan
PlanFile ==
    /\ pc = "sizing"
    /\ IF FileSizes(settings, file_count, avg_size, sizes) = {}
       THEN /\ error' = "ValueError"
            /\ pc' = "raised"
            /\ sizes' = sizes
       ELSE /\ \E file_size \in FileSizes(settings, file_count, avg_size, sizes) :
                  sizes' = Append(sizes, file_size)
            /\ pc' = IF Len(sizes) + 1 = file_count THEN "planned" ELSE "sizing"
            /\ error' = error
    /\ UNCHANGED <<plans, encoded_files, passwords, file_references, image_refs, disk, wi,
                   encVars, mainVars, settings, file_count, avg_size>>

PlanInit ==
    /\ PipeIdle
    /\ EncIdle
    /\ MainIdle
    /\ pc = "validate"
    /\ settings \in SettingsSpace
    /\ file_count = 0
    /\ avg_size = 0
    /\ sizes = <<>>

PlanNext == PlanValidate \/ PlanStart \/ PlanFile

PlanSpec == PlanInit /\ [][PlanNext]_vars

(***************************************************************************)
(* Properties                                                              *)
(***************************************************************************)
RefTypes == {file_references[n].reference_type : n \in 1..Len(file_references)}

\* every file still holds exactly what encode_file returned for it
Pristine(efs) ==
    \A i \in 1..Len(efs) :
        /\ Len(efs[i].encoded_content) = 1
        /\ efs[i].encoded_content[1].k \in {"raw", "enc"}
        /\ efs[i].encoded_content[1].of = i

\* C1: every edge in file_references, whichever relation pass appended it,
\* has a source different from its target, and both are filenames of plans
\* of the input list.
C1_EdgesWellFormed ==
    \A n \in 1..Len(file_references) :
        /\ file_references[n].source_file # file_references[n].target_file
        /\ file_references[n].source_file \in PlanNames
        /\ file_references[n].target_file \in PlanNames

\* create_file_network returned a graph with edges of five relation kinds
C1_Witness ==
    /\ pc = "returned"
    /\ {"document_reference", "data_source", "backup", "project_reference",
        "version_reference"} \subseteq RefTypes

\* C2: the final content of every file encoded with a method other than NONE
\* is exactly the output of encode_file: no rewriting pass and no password
\* hint changes it.
C2_EncodedContentUntouched ==
    \A i \in 1..Len(encoded_files) :
        encoded_files[i].encoding_method # NONE =>
            /\ Len(encoded_files[i].encoded_content) = 1
            /\ encoded_files[i].encoded_content[1].k = "enc"
            /\ encoded_files[i].encoded_content[1].m = encoded_files[i].encoding_method

\* C3: _choose_encoding_method returns NONE for pdf, jpg, png and eml whatever
\* the draw, and the content of every pdf, jpg and png file stays the bytes the
\* template generated through encoding, rewriting and hint distribution.
C3_BinaryFormatsUntouched ==
    /\ \A t \in {"pdf", "jpg", "png", "eml"} : ChooseEncodingMethod(t) = {NONE}
    /\ \A i \in 1..Len(encoded_files) :
          LET ef == encoded_files[i]
          IN /\ ef.original_plan.file_type \in {"pdf", "jpg", "png", "eml"} => ef.encoding_method = NONE
             /\ ef.original_plan.file_type \in {"pdf", "jpg", "png"} =>
                   ef.encoded_content = <<Chunk("raw", i, NONE, FALSE, <<>>)>>

\* create_file_network returned for a list with a pdf that has outgoing
\* edges, an image, and a password in the registry
C3_Witness ==
    /\ pc = "returned"
    /\ DOMAIN passwords # {}
    /\ \E i, j \in 1..Len(encoded_files) :
          /\ encoded_files[i].original_plan.file_type = "pdf"
          /\ RefsFrom(encoded_files[i].original_plan.filename) # <<>>
          /\ encoded_files[j].original_plan.file_type \in {"jpg", "png"}

\* C4: the output of ENCRYPTED_FERNET is a 16-byte salt followed by the token
\* for the key derived from the reported password and that salt; the metadata
\* carries the password used (the caller's, or a generated one) and the salt;
\* decode_encrypted_file with the reported password returns the content.
C4_FernetRoundTrip ==
    (pc \in {"encoded", "decoded"} /\ e_method = "encrypted_fernet") =>
        LET out == e_out.encoded
            salt == SubSeq(out, 1, 16)
        IN /\ Len(out) >= 16
           /\ \A n \in 1..16 : out[n] \in 0..255
           /\ SubSeq(out, 17, Len(out)) = FernetEncrypt(DeriveKey(e_out.metadata.password, salt), e_content)
           /\ IF Falsy(e_password) THEN e_out.metadata.password \in GeneratePassword("medium")
              ELSE e_out.metadata.password = e_password
           /\ B64Decode(e_out.metadata.salt) = salt
           /\ pc = "decoded" => e_dec = e_content

\* a content of more than 100 bytes was encrypted under a generated password
\* and decrypted again
C4_Witness ==
    /\ pc = "decoded"
    /\ e_method = "encrypted_fernet"
    /\ Falsy(e_password)
    /\ Len(e_content) > 100

\* C5: ZIP_PASSWORD holds one entry equal to the content; ZIP_ENCRYPTED holds
\* the two halves content[:n//2] and content[n//2:] when the content is longer
\* than 100 bytes and the whole content in one entry otherwise, always
\* followed by the checksum entry; the reported password opens the archive.
C5_ZipEntries ==
    (pc \in {"encoded", "decoded"} /\ e_method \in {"zip_password", "zip_encrypted"}) =>
        LET entries == e_out.encoded.entries
            n == Len(e_content)
        IN /\ e_method = "zip_password" =>
                 /\ Len(entries) = 1
                 /\ entries[1].data = e_content
           /\ (e_method = "zip_encrypted" /\ n > 100) =>
                 /\ Len(entries) = 3
                 /\ entries[1].data = SubSeq(e_content, 1, n \div 2)
                 /\ entries[2].data = SubSeq(e_content, n \div 2 + 1, n)
                 /\ entries[1].data \o entries[2].data = e_content
           /\ (e_method = "zip_encrypted" /\ n <= 100) =>
                 /\ Len(entries) = 2
                 /\ entries[1].data = e_content
           /\ e_method = "zip_encrypted" => entries[Len(entries)] = Entry("checksum.md5", Checksum)
           /\ pc = "decoded" => e_dec = entries

\* a content of exactly 100 bytes went into a ZIP_ENCRYPTED archive
C5_Witness ==
    /\ pc = "decoded"
    /\ e_method = "zip_encrypted"
    /\ Len(e_content) = 100

\* C6: the matching decode of each base64 variant returns the content; the
\* BASE64_MULTILINE output has a newline exactly after every 64 characters
\* that are followed by more, none at the end, and without its newlines it is
\* the BASE64 output.
C6_Base64RoundTrip ==
    (pc \in {"encoded", "decoded"} /\ e_method \in Base64Methods) =>
        LET out == e_out.encoded
        IN /\ pc = "decoded" => e_dec = e_content
           /\ e_method = "base64_multiline" =>
                 /\ \A j \in 1..Len(out) : (out[j] = NEWLINE) <=> (j % 65 = 0)
                 /\ Len(out) > 0 => out[Len(out)] # NEWLINE
                 /\ \E b \in EncodeFile(e_content, "base64", NoPassword) :
                       RemoveNewlines(out) = b.encoded

\* 96 bytes, whose base64 text is exactly two full lines, were encoded as
\* BASE64_MULTILINE and decoded
C6_Witness ==
    /\ pc = "decoded"
    /\ e_method = "base64_multiline"
    /\ Len(e_content) = 96

\* C7: when encode_file raises for a plan, create_file_network raises: no
\* EncodedFile is recorded for that plan, no relation pass and no rewriting
\* pass runs, and generate_chaff_files writes nothing.
C7_EncodeFailureAborts ==
    error = "encode" =>
        /\ pc = "raised"
        /\ Len(encoded_files) < Len(plans)
        /\ file_references = <<>>
        /\ Pristine(encoded_files)
        /\ disk = {}

\* encode_file raised for the second plan of a list
C7_Witness ==
    /\ error = "encode"
    /\ Len(encoded_files) = 1

\* C8: no relation pass raises for want of candidate targets.
C8_NoPassRaises == error # "ValueError"

\* every plan has its EncodedFile and every password is in the registry
AllEncoded ==
    /\ Len(encoded_files) = Len(plans)
    /\ \A i \in 1..Len(encoded_files) :
          encoded_files[i].password # NoPassword =>
              encoded_files[i].original_plan.filename \in DOMAIN passwords

\* C9: an edge is appended only when every plan is encoded and its password
\* stored and no content has been rewritten yet; a step that rewrites content
\* or appends a hint leaves file_references unchanged.
C9_PhaseOrder ==
    [][ /\ file_references' # file_references =>
              /\ AllEncoded
              /\ Pristine(encoded_files)
              /\ encoded_files' = encoded_files
        /\ (Len(encoded_files') = Len(encoded_files) /\ encoded_files' # encoded_files) =>
              file_references' = file_references ]_vars

\* create_file_network returned with edges, a rewritten file and a password
C9_Witness ==
    /\ pc = "returned"
    /\ file_references # <<>>
    /\ ~Pristine(encoded_files)
    /\ DOMAIN passwords # {}

\* C10: a file encoded with a base64 variant is written under a name the
\* decoder detects as base64 ('.b64'), a non-image file encoded with
\* encrypted_fernet under a name it detects as encrypted_fernet ('.enc').
C10_EncodedSuffix ==
    \A f \in disk :
        /\ f.encoding_method \in Base64Methods => DetectEncodingMethod(f.name, FALSE) = "base64"
        /\ (f.encoding_method = "encrypted_fernet" /\ f.name.fn.ext \notin {"jpg", "png"}) =>
              DetectEncodingMethod(f.name, FALSE) = "encrypted_fernet"

\* C11: the filenames of the plans generate_file_plan returns are pairwise
\* distinct.
C11_FilenamesDistinct ==
    \A i, j \in 1..Len(plans) : i # j => plans[i].filename # plans[j].filename

\* C15: generate_chaff_files is entered, and a file exists, only when
\* validate_settings gave no 'not enough' warning, the plan is not empty,
\* --dry-run is not set and the answer at the prompt was y or yes (in any
\* letter case); a dry run never reaches the prompt, and main returns 0 or 1.
C15_GenerationGated ==
    /\ (pc \in {"generate", "generated"} \/ disk # {} \/ error # "none") =>
          /\ "Not enough usable disk space" \notin warnings
          /\ plans # <<>>
          /\ ~dry_run
          /\ response \in {"y", "Y", "yes", "YES", "Yes"}
    /\ pc = "confirm" => ~dry_run /\ plans # <<>>
    /\ pc = "exit" => result \in {0, 1}
    /\ (pc = "exit" /\ dry_run /\ plans # <<>>) => result = 0

\* main wrote the files after a warning on the file count range and the
\* answer YES
C15_Witness ==
    /\ pc = "generated"
    /\ disk # {}
    /\ response = "YES"
    /\ warnings = {"file count"}

\* C12: create_file_network returns one EncodedFile per plan, the i-th for
\* plans[i], and the counts of get_encoding_summary add up to the number of
\* plans.
C12_OneRecordPerPlan ==
    /\ Len(encoded_files) <= Len(plans)
    /\ \A i \in 1..Len(encoded_files) : encoded_files[i].original_plan = plans[i]
    /\ pc \in {"returned", "written"} =>
          /\ Len(encoded_files) = Len(plans)
          /\ SumValues(GetEncodingSummary) = Len(plans)

\* create_file_network returned four files, two of them of the same name,
\* encoded with two methods
C12_Witness ==
    /\ pc = "returned"
    /\ Len(plans) = 4
    /\ plans[1].filename = plans[2].filename
    /\ Cardinality(DOMAIN GetEncodingSummary) = 2

\* C13: once every plan is encoded, the registry has an entry for a file's
\* name exactly when the file was encoded with a password method, the entry
\* is that file's password, and files encoded with NONE or a base64 variant
\* have no password.
C13_RegistryMatchesFiles ==
    Len(encoded_files) = Len(plans) =>
        \A i \in 1..Len(encoded_files) :
            LET ef == encoded_files[i]
                name == ef.original_plan.filename
            IN /\ (name \in DOMAIN passwords) <=> (ef.encoding_method \in PasswordMethods)
               /\ ef.encoding_method \in PasswordMethods =>
                     /\ name \in DOMAIN passwords
                     /\ passwords[name] = ef.password
               /\ ef.encoding_method \notin PasswordMethods => ef.password = NoPassword

\* the relation pass p has run to its end
PassDone(p) ==
    \/ \E n \in 1..Len(Phases) : Phases[n] = pc /\ n > PhaseIndex(p)
    \/ pc = "written"
    \/ pc = "raised" /\ error = "ValueError" /\ PhaseIndex("sheetref") > PhaseIndex(p)

\* the positions in file_references of the edges of a type from a filename
EdgesFrom(filename, ty) ==
    {n \in 1..Len(file_references) :
        /\ file_references[n].reference_type = ty
        /\ file_references[n].source_file = filename}

\* the edges at the positions ns go to pairwise distinct targets
DistinctTargets(ns) ==
    \A a, b \in ns : a # b => file_references[a].target_file # file_references[b].target_file

\* C14: after the document pass every document with at least one other
\* document in the plans has between 1 and min(3, number of other documents)
\* document_reference edges, to pairwise distinct documents other than
\* itself; without images there is no embedded_image edge.
C14_DocumentReferences ==
    /\ PassDone("docref") =>
          \A i \in 1..Len(plans) :
              LET others == {j \in 1..Len(plans) : j # i /\ IsDocument(plans[j])}
                  es == EdgesFrom(plans[i].filename, "document_reference")
              IN (IsDocument(plans[i]) /\ others # {}) =>
                    /\ Cardinality(es) >= 1
                    /\ Cardinality(es) <= Min(3, Cardinality(others))
                    /\ DistinctTargets(es)
                    /\ \A n \in es :
                          /\ file_references[n].target_file # plans[i].filename
                          /\ \E j \in others : plans[j].filename = file_references[n].target_file
    /\ images = <<>> => "embedded_image" \notin RefTypes

\* C16: when a document or an image exists, the spreadsheet pass leaves every
\* spreadsheet with between 2 and 4 data_source edges, to pairwise distinct
\* targets, each a document or an image.
C16_SpreadsheetReferences ==
    ((PassDone("sheetref") \/ error = "ValueError") /\ documents \o images # <<>>) =>
        \A i \in 1..Len(plans) :
            LET es == EdgesFrom(plans[i].filename, "data_source")
            IN IsSpreadsheet(plans[i]) =>
                  /\ Cardinality(es) >= 2
                  /\ Cardinality(es) <= 4
                  /\ DistinctTargets(es)
                  /\ \A n \in es : \E j \in 1..Len(plans) :
                        /\ IsDocument(plans[j]) \/ IsImage(plans[j])
                        /\ plans[j].filename = file_references[n].target_file

\* C17: when a non-email file exists, the attachment pass leaves every email
\* with between 1 and min(6, number of non-email files) attachment edges, to
\* pairwise distinct targets none of which is an email; every attachment edge
\* has an email as source; every email_source edge from A to E has its
\* attachment edge from E to A.
C17_EmailAttachments ==
    LET other_files == {j \in 1..Len(plans) : ~IsEmail(plans[j])}
        email_names == {plans[j].filename : j \in {k \in 1..Len(plans) : IsEmail(plans[k])}}
    IN /\ (PassDone("attach") /\ other_files # {}) =>
             \A i \in 1..Len(plans) :
                 LET es == EdgesFrom(plans[i].filename, "attachment")
                 IN IsEmail(plans[i]) =>
                       /\ Cardinality(es) >= 1
                       /\ Cardinality(es) <= Min(6, Cardinality(other_files))
                       /\ DistinctTargets(es)
                       /\ \A n \in es : file_references[n].target_file \notin email_names
       /\ \A n \in 1..Len(file_references) :
             LET r == file_references[n]
             IN /\ r.reference_type = "attachment" => r.source_file \in email_names
                /\ r.reference_type = "email_source" =>
                      \E k \in 1..Len(file_references) :
                          /\ file_references[k].reference_type = "attachment"
                          /\ file_references[k].source_file = r.target_file
                          /\ file_references[k].target_file = r.source_file

\* there is a version_reference edge from filename a to filename b
VersionEdge(a, b) ==
    \E n \in 1..Len(file_references) :
        /\ file_references[n].reference_type = "version_reference"
        /\ file_references[n].source_file = a
        /\ file_references[n].target_file = b

\* C18: after the version pass two files of different filenames have a
\* version_reference edge from the first to the second exactly when their
\* names without indicator and extension (every suffix of the names explored
\* is an indicator, so: their base parts) are equal, and then also the
\* opposite edge; a file that shares that name with no other file has no
\* version_reference edge.
C18_VersionReferences ==
    /\ PassDone("version") =>
          \A i, j \in 1..Len(plans) :
              plans[i].filename # plans[j].filename =>
                  /\ VersionEdge(plans[i].filename, plans[j].filename)
                        <=> (plans[i].filename.base = plans[j].filename.base)
                  /\ VersionEdge(plans[i].filename, plans[j].filename)
                        => VersionEdge(plans[j].filename, plans[i].filename)
    /\ \A i \in 1..Len(plans) :
          (\A j \in 1..Len(plans) : j # i => plans[j].filename.base # plans[i].filename.base) =>
              \A n \in 1..Len(file_references) :
                  file_references[n].reference_type = "version_reference" =>
                      /\ file_references[n].source_file # plans[i].filename
                      /\ file_references[n].target_file # plans[i].filename

\* create_file_network returned for report.eml, report_v2.txt and
\* data_backup.png: the first two are versions of each other, the third is alone
C18_Witness ==
    /\ pc = "returned"
    /\ Len(plans) = 3
    /\ plans[1].filename.base = plans[2].filename.base
    /\ plans[1].filename # plans[2].filename
    /\ plans[3].filename.base # plans[1].filename.base
    /\ VersionEdge(plans[1].filename, plans[2].filename)

\* the positions in file_references of the password edges that target a filename
PasswordEdgesTo(filename) ==
    {n \in 1..Len(file_references) :
        /\ file_references[n].reference_type = "password"
        /\ file_references[n].target_file = filename}

\* C19: at most one password edge targets a password-protected file; its
\* source is an email, text or docx file other than the protected file, its
\* context holds the file's password; no password edge targets a file
\* without a password.
C19_PasswordReferences ==
    \A i \in 1..Len(encoded_files) :
        LET ef == encoded_files[i]
            es == PasswordEdgesTo(ef.original_plan.filename)
        IN /\ ef.password = NoPassword => es = {}
           /\ ef.password # NoPassword =>
                 /\ Cardinality(es) <= 1
                 /\ \A n \in es :
                       /\ file_references[n].source_file # ef.original_plan.filename
                       /\ \E j \in 1..Len(plans) :
                             /\ plans[j].filename = file_references[n].source_file
                             /\ plans[j].file_type \in {"eml", "txt", "docx"}
                       /\ file_references[n].context.password = ef.password

\* the content quotes the context sentence ctx
Quotes(content, ctx) ==
    \E c \in 1..Len(content) : \E l \in 1..Len(content[c].lines) : content[c].lines[l].ctx = ctx

HeaderSet(ef) ==
    [id |-> ef.encoded_content[1].headers.id, tz |-> ef.encoded_content[1].headers.tz]

\* C21: the email rewriting keeps the header set of every email: sender,
\* recipient, subject, date and message-id after the step are those of the
\* content the template generated.
C21_EmailHeadersKept ==
    [][pc = "upd_email" =>
          \A i \in 1..Len(encoded_files) :
              encoded_files[i].original_plan.file_type = "eml" =>
                  HeaderSet(encoded_files'[i]) = HeaderSet(encoded_files[i])]_vars

\* the lines of the 'Attachments included' section of a content that name
\* the given file, as (chunk, line) positions
AttachmentLines(content, filename) ==
    {<<c, l>> \in (1..Len(content)) \X (1..3 * Len(file_references)) :
        /\ l <= Len(content[c].lines)
        /\ content[c].lines[l].sec \in {"documents", "images", "data"}
        /\ content[c].lines[l].ctx.about = filename}

\* C22: after the email rewriting, an email with at least one outgoing edge
\* names the target of each of its attachment edges exactly once in the
\* attachment section (under one of documents / images / data), its
\* X-Attachments header gives the number of its attachment edges, and the
\* security notes list the context of each password edge it is the source
\* of; an email with no outgoing edge still has its generated content.
C22_EmailSections ==
    PassDone("upd_email") =>
        \A i \in 1..Len(encoded_files) :
            LET ef == encoded_files[i]
                name == ef.original_plan.filename
            IN ef.original_plan.file_type = "eml" =>
                  IF RefsFrom(name) # <<>>
                  THEN /\ Len(ef.encoded_content) = 1
                       /\ ef.encoded_content[1].k = "email"
                       /\ \A n \in EdgesFrom(name, "attachment") :
                              Cardinality(AttachmentLines(ef.encoded_content,
                                                          file_references[n].target_file)) = 1
                       /\ ef.encoded_content[1].headers.x_attachments =
                              Cardinality(EdgesFrom(name, "attachment"))
                       /\ \A n \in EdgesFrom(name, "password") :
                              \E l \in 1..Len(ef.encoded_content[1].lines) :
                                  ef.encoded_content[1].lines[l] =
                                      Line("security", file_references[n].context)
                  ELSE /\ Len(ef.encoded_content) = 1
                       /\ ef.encoded_content[1].k = "raw"
                       /\ ef.encoded_content[1].of = i

\* the section is one line per outgoing edge of the file, in graph order
ListsOutgoing(section, filename) ==
    LET refs == RefsFrom(filename)
    IN /\ Len(section.lines) = Len(refs)
       /\ \A l \in 1..Len(refs) : section.lines[l].ctx = refs[l].context

\* C23: the rewriting of an unencoded text container keeps the original
\* content as one block: the spreadsheet rewriting turns an unencoded csv
\* file with outgoing edges into the '# REFERENCED FILES:' lines, one per
\* outgoing edge in graph order, followed by its unchanged content; the
\* document rewriting turns an unencoded txt file with outgoing edges into its
\* unchanged content followed by the 'REFERENCED FILES:' lines; a csv or txt
\* file without outgoing edge is left as it is.
C23_TextContentKept ==
    [][\A i \in 1..Len(encoded_files) :
          LET ef == encoded_files[i]
              old == ef.encoded_content
              new == encoded_files'[i].encoded_content
              has_refs == RefsFrom(ef.original_plan.filename) # <<>>
          IN /\ (pc = "upd_sheet" /\ ef.original_plan.file_type = "csv"
                    /\ ef.encoding_method = NONE) =>
                   IF has_refs
                   THEN /\ Len(new) = Len(old) + 1
                        /\ new[1].k = "csvrefs"
                        /\ ListsOutgoing(new[1], ef.original_plan.filename)
                        /\ Tail(new) = old
                   ELSE new = old
             /\ (pc = "upd_doc" /\ ef.original_plan.file_type = "txt"
                    /\ ef.encoding_method = NONE) =>
                   IF has_refs
                   THEN /\ Len(new) = Len(old) + 1
                        /\ SubSeq(new, 1, Len(old)) = old
                        /\ new[Len(new)].k = "reflist"
                        /\ ListsOutgoing(new[Len(new)], ef.original_plan.filename)
                   ELSE new = old]_vars

\* the hints appended to the content of file i, as the contexts they quote
HintsIn(i) ==
    {encoded_files[i].encoded_content[c].lines[1] :
        c \in {d \in 1..Len(encoded_files[i].encoded_content) :
                  encoded_files[i].encoded_content[d].k = "hint"}}

\* C24: every hint _distribute_password_hints appended quotes a password of
\* the registry together with the name of the file it protects.
C24_HintNamesFile ==
    \A i \in 1..Len(encoded_files) : \A h \in HintsIn(i) :
        /\ h.ctx.password # NoPassword
        /\ h.ctx.about \in DOMAIN passwords
        /\ passwords[h.ctx.about] = h.ctx.password

\* C25: no file carries a hint for its own password: a hint appended to a
\* file was formatted for a registry entry of another filename.
C25_HintNotInProtectedFile ==
    \A i \in 1..Len(encoded_files) :
        \A c \in 1..Len(encoded_files[i].encoded_content) :
            encoded_files[i].encoded_content[c].k = "hint" =>
                encoded_files[i].encoded_content[c].protects
                    # encoded_files[i].original_plan.filename

\* the hints in the contents, as (file, chunk) positions
HintPositions ==
    {<<i, c>> \in (1..Len(encoded_files)) \X (1..4) :
        /\ c <= Len(encoded_files[i].encoded_content)
        /\ encoded_files[i].encoded_content[c].k = "hint"}

C27_NeverOverwrites ==
    [][(pc = "returned" /\ wi <= Len(encoded_files)) =>
          LET planned == GetActualFilename(encoded_files[wi])
              added == disk' \ disk
          IN /\ disk \subseteq disk'
             /\ Cardinality(added) = 1
             /\ Cardinality(disk') = wi
             /\ \A f \in added :
                   /\ f.name \notin DiskNames
                   /\ f.name.fn = planned.fn
                   /\ f.data = encoded_files[wi].encoded_content
                   /\ \A b \in 0..(f.name.n - 1) : DiskName(planned.fn, b) \in DiskNames
             /\ \A f, g \in disk' : f.name = g.name => f = g]_vars

\* every file of a list with a repeated filename is written, one of them
\* under a counter name
C27_Witness ==
    /\ pc = "written"
    /\ Cardinality(disk) = Len(encoded_files)
    /\ \E f \in disk : f.name.n = 1

\* C28: the step of main after generate_chaff_files leaves the target
\* directory either as the write loop left it (delete_after_completion is
\* off) or without any file of the run (cleanup_files ran), whatever names
\* create_linked_file wrote the files under.
C28_CleanupRemovesAll ==
    [][(pc = "generated" /\ pc' = "exit") => (disk' = disk \/ disk' = {})]_vars

\* C29: once the embedding pass has run, the image filenames handed to the
\* template of a pdf or docx file are exactly the targets of the
\* embedded_image edges whose source is that file.
C29_ImageReferencesAgree ==
    PassDone("embed") =>
        \A i \in 1..Len(encoded_files) :
            encoded_files[i].original_plan.file_type \in {"pdf", "docx"} =>
                SeqToSet(image_refs[i]) =
                    {file_references[n].target_file :
                        n \in EdgesFrom(encoded_files[i].original_plan.filename, "embedded_image")}

\* C30: when generate_file_plan has returned in fill-drive mode for settings
\* with min_file_size <= max_file_size that validate_settings let through,
\* every planned size lies between min_file_size and max_file_size and the
\* sizes add up to no more than the usable space, the free space less
\* minimum_remaining_disk_space.
C30_FillDriveWithinUsableSpace ==
    (/\ pc = "planned"
     /\ settings.fill_drive
     /\ settings.min_file_size <= settings.max_file_size) =>
        /\ \A i \in 1..Len(sizes) :
              /\ settings.min_file_size <= sizes[i]
              /\ sizes[i] <= settings.max_file_size
        /\ TotalAllocatedSize(sizes) <= UsableSpace(settings)
====
